---- MODULE Spec2Model ----
(***************************************************************************)
(* A model of the NTCP2 overlay of go-i2p: the ephemeral-key obfuscation   *)
(* of lib/transport/ntcp/session.go, the message-1 reader of the           *)
(* SessionRequestProcessor and the Transport's GetSession / Accept.        *)
(*                                                                         *)
(* Byte strings are abstracted: a 16-byte AES block is a value of Block, a *)
(* 32-byte key is a pair of blocks, a 32-byte static key is a value of     *)
(* Keys.  crypto/aes is an external library and is modelled as a keyed     *)
(* permutation of Block; the CBC chaining of session.go is kept as the     *)
(* code writes it.                                                         *)
(***************************************************************************)
EXTENDS Integers, Sequences, FiniteSets, TLC

VARIABLES
    \* --- key obfuscation (session.go) ---
    respRI,     \* the responder's published descriptor (address list)
    initRI,     \* the initiator's published descriptor (address list)
    x,          \* the 32-byte buffer the operations are applied to
    ops,        \* the operations applied so far, oldest first
    \* --- transport (Transport.GetSession, Transport.Accept) ---
    conns,      \* the connections opened so far: "open" or "closed"
    sessions,   \* the sessions handed out, in creation order
    calls,      \* the calls that have returned, oldest first
    \* --- reading message 1 (SessionRequestProcessor.ReadMessage) ---
    rpc,        \* the step ReadMessage performs next
    rd,         \* its session's descriptor and its locals
    steps,      \* the steps performed so far, oldest first
    bytesRead,  \* bytes consumed from the connection
    allocs,     \* the sizes of the padding buffers allocated
    ret,        \* what ReadMessage returned: "none", "message" or "error"
    \* --- one session driven by concurrent callers (NoiseSession) ---
    mutex,      \* the holder of the session's sync.Mutex, or "free"
    cpc,        \* each caller's position in its operation
    cop,        \* each caller's running operation and its invocation number
    hsState,    \* the session: "handshaking", "established" or "closed"
    glog,       \* the steps performed on the session, oldest first
    \* --- descriptor structures (RouterAddress) ---
    ra,         \* a RouterAddress value
    raBytes,    \* its serialization, once Bytes() ran
    raRead,     \* what ReadRouterAddress returned for raBytes
    \* --- descriptor structures (KeysAndCert) ---
    kcData,     \* the bytes handed to ReadKeys / ReadKeysAndCert
    kcRet,      \* the call made on kcData and what it returned
    \* --- legacy (DSA) signatures ---
    dsaKey,     \* the DSAPrivateKey Generate returned
    dsaSig,     \* the signature made with it, its data and its (r, s)
    dsaVerdict, \* the data and signature verified, and the error returned
    \* --- lease sets ---
    lsData,     \* a serialized lease set
    lsRet,      \* what LeaseCount returned for it
    \* --- message 1 construction ---
    crHs,       \* the handshake state handed to the processor
    crMsg,      \* the SessionRequest CreateMessage built
    crRet,      \* how the processor call ended
    \* --- Length, an extension of Integer ---
    lenValue,   \* a non-negative value
    lenNumber,  \* LengthBytes of it, once computed
    lenBack     \* Length of these bytes, once computed

keyVars == <<respRI, initRI, x, ops>>

transportVars == <<conns, sessions, calls>>

readVars == <<rpc, rd, steps, bytesRead, allocs, ret>>

guardVars == <<mutex, cpc, cop, hsState, glog>>

addrVars == <<ra, raBytes, raRead>>

\* The variables of the descriptor, signature and message-1 construction models.
kcVars == <<kcData, kcRet>>

dsaVars == <<dsaKey, dsaSig, dsaVerdict>>

lsVars == <<lsData, lsRet>>

crVars == <<crHs, crMsg, crRet>>

lenVars == <<lenValue, lenNumber, lenBack>>

dataVars == <<addrVars, kcVars, dsaVars, lsVars, crVars, lenVars>>

vars == <<respRI, initRI, x, ops, conns, sessions, calls,
          rpc, rd, steps, bytesRead, allocs, ret,
          mutex, cpc, cop, hsState, glog, dataVars>>

-----------------------------------------------------------------------------
(* Bounds *)

MaxAddrs == 2       \* addresses in a descriptor
MaxOps == 2         \* obfuscation operations in one run
MaxCalls == 2       \* GetSession / Accept calls in one run
MaxLog == 4         \* steps performed on one session in one run

-----------------------------------------------------------------------------
(* Descriptors *)

NTCP_PROTOCOL_NAME == "NTCP2"

\* "unreadable" stands for a transport style whose Data() returns an error.
Styles == {NTCP_PROTOCOL_NAME, "SSU", "unreadable"}

Keys == {"K1", "K2"}    \* 32-byte static keys
NoKey == "none"         \* option "s" absent or not 32 bytes
ZeroKey == "zero"       \* [32]byte{}

Address == [style : Styles, s : Keys \cup {NoKey}]

RECURSIVE SeqsUpTo(_, _)
SeqsUpTo(S, n) ==
    IF n = 0 THEN {<<>>}
    ELSE LET shorter == SeqsUpTo(S, n - 1)
         IN  shorter \cup {Append(q, a) : q \in {r \in shorter : Len(r) = n - 1}, a \in S}

Descriptors == SeqsUpTo(Address, MaxAddrs)

\* RouterAddress.StaticKey: the 32 bytes of option "s", or an error.
StaticKey(addr) ==
    IF addr.s \in Keys THEN [ok |-> TRUE, key |-> addr.s]
    ELSE [ok |-> FALSE, key |-> ZeroKey]

\* The loop of peerStaticKey from address i on.
RECURSIVE peerStaticKeyFrom(_, _)
peerStaticKeyFrom(ri, i) ==
    IF i > Len(ri) THEN [ok |-> FALSE, key |-> ZeroKey]
    ELSE IF ri[i].style = "unreadable" THEN peerStaticKeyFrom(ri, i + 1)
    ELSE IF ri[i].style = NTCP_PROTOCOL_NAME THEN StaticKey(ri[i])
    ELSE peerStaticKeyFrom(ri, i + 1)

\* A faulty variant: the last NTCP2 address wins instead of the first.
RECURSIVE peerStaticKeyLastFrom(_, _)
peerStaticKeyLastFrom(ri, i) ==
    IF i < 1 THEN [ok |-> FALSE, key |-> ZeroKey]
    ELSE IF ri[i].style = NTCP_PROTOCOL_NAME THEN StaticKey(ri[i])
    ELSE peerStaticKeyLastFrom(ri, i - 1)

peerStaticKeyLast(ri) == peerStaticKeyLastFrom(ri, Len(ri))

peerStaticKey(ri) == peerStaticKeyFrom(ri, 1)

-----------------------------------------------------------------------------
(* AES-256-CBC with a zero IV over two blocks *)

Block == 0 .. 3

\* XOR of two 2-bit blocks, bit by bit.
Xor(a, b) == (((a % 2) + (b % 2)) % 2) + (2 * (((a \div 2) + (b \div 2)) % 2))

\* The block cipher: one permutation of Block per key.
AesTable == [K \in Keys |-> IF K = "K1" THEN <<1, 3, 0, 2>> ELSE <<2, 0, 3, 1>>]

aesEncrypt(K, b) == AesTable[K][b + 1]

aesDecrypt(K, c) == CHOOSE b \in Block : aesEncrypt(K, b) = c

ZeroIV == 0

Buffers == {<<a, b>> : a \in Block, b \in Block}

\* cipher.NewCBCEncrypter(block, iv).CryptBlocks(dst, src)
CBCEncrypt(K, src) ==
    LET c1 == aesEncrypt(K, Xor(src[1], ZeroIV))
        c2 == aesEncrypt(K, Xor(src[2], c1))
    IN  <<c1, c2>>

\* cipher.NewCBCDecrypter(block, iv).CryptBlocks(dst, src)
CBCDecrypt(K, src) ==
    <<Xor(aesDecrypt(K, src[1]), ZeroIV), Xor(aesDecrypt(K, src[2]), src[1])>>

\* A faulty variant: the second block is chained on the decrypted first block.
CBCDecryptPlainChain(K, src) ==
    LET p1 == Xor(aesDecrypt(K, src[1]), ZeroIV)
    IN  <<p1, Xor(aesDecrypt(K, src[2]), p1)>>

ObfuscateEphemeral(ri, key) ==
    LET static == peerStaticKey(ri)
    IN  IF ~static.ok THEN [ok |-> FALSE, out |-> <<>>, static |-> ZeroKey]
        ELSE [ok |-> TRUE, out |-> CBCEncrypt(static.key, key), static |-> static.key]

DeobfuscateEphemeralPlainChain(ri, obfuscated) ==
    LET static == peerStaticKey(ri)
    IN  IF ~static.ok THEN [ok |-> FALSE, out |-> <<>>, static |-> ZeroKey]
        ELSE [ok |-> TRUE, out |-> CBCDecryptPlainChain(static.key, obfuscated),
              static |-> static.key]

DeobfuscateEphemeral(ri, obfuscated) ==
    LET static == peerStaticKey(ri)
    IN  IF ~static.ok THEN [ok |-> FALSE, out |-> <<>>, static |-> ZeroKey]
        ELSE [ok |-> TRUE, out |-> CBCDecrypt(static.key, obfuscated),
              static |-> static.key]

-----------------------------------------------------------------------------
(* The two sessions of one connection.  The initiator's session "I" is     *)
(* built from the responder's descriptor; the responder's inbound session  *)
(* "R" is built from the initiator's descriptor (NewNTCP2Session(remote)). *)

Sessions == {"I", "R"}

SessionRI(s) == IF s = "I" THEN respRI ELSE initRI

\* The initiator publishes one NTCP2 address with its static key.
InitiatorDescriptors == {<<[style |-> NTCP_PROTOCOL_NAME, s |-> k]>> : k \in Keys}

\* The parts of the state a specification does not exercise stay as built.
IdleKey == respRI = <<>> /\ initRI = <<>> /\ x = <<>> /\ ops = <<>>

IdleTransport == conns = <<>> /\ sessions = <<>> /\ calls = <<>>

IdleRead ==
    /\ rpc = "idle"
    /\ rd = <<>>
    /\ steps = <<>>
    /\ bytesRead = 0
    /\ allocs = <<>>
    /\ ret = "none"

IdleGuard ==
    /\ mutex = "free"
    /\ cpc = <<>>
    /\ cop = <<>>
    /\ hsState = "handshaking"
    /\ glog = <<>>

IdleAddr == ra = <<>> /\ raBytes = <<>> /\ raRead = <<>>

IdleKc == kcData = <<>> /\ kcRet = <<>>

IdleDsa == dsaKey = <<>> /\ dsaSig = <<>> /\ dsaVerdict = <<>>

IdleLs == lsData = <<>> /\ lsRet = <<>>

IdleCr == crHs = <<>> /\ crMsg = <<>> /\ crRet = <<>>

IdleLen == lenValue = 0 /\ lenNumber = <<>> /\ lenBack = <<>>

IdleRest == IdleDsa /\ IdleLs /\ IdleCr /\ IdleLen

IdleData == IdleAddr /\ IdleKc /\ IdleRest

InitKey ==
    /\ respRI \in Descriptors
    /\ initRI \in InitiatorDescriptors
    /\ x \in Buffers
    /\ ops = <<>>
    /\ IdleTransport
    /\ IdleRead
    /\ IdleGuard
    /\ IdleData

\* An operation can follow only a successful one: a failed one returns nil.
CanApply == Len(ops) < MaxOps /\ (ops # <<>> => ops[Len(ops)].ok)

Obfuscate(s) ==
    /\ CanApply
    /\ LET r == ObfuscateEphemeral(SessionRI(s), x)
       IN  /\ x' = r.out
           /\ ops' = Append(ops, [op |-> "obfuscate", sess |-> s, in |-> x,
                                   ok |-> r.ok, static |-> r.static])
    /\ UNCHANGED <<respRI, initRI, transportVars, readVars, guardVars, dataVars>>

Deobfuscate(s) ==
    /\ CanApply
    /\ LET r == DeobfuscateEphemeral(SessionRI(s), x)
       IN  /\ x' = r.out
           /\ ops' = Append(ops, [op |-> "deobfuscate", sess |-> s, in |-> x,
                                   ok |-> r.ok, static |-> r.static])
    /\ UNCHANGED <<respRI, initRI, transportVars, readVars, guardVars, dataVars>>

NextKey ==
    \/ \E s \in Sessions : Obfuscate(s)
    \/ \E s \in Sessions : Deobfuscate(s)

SpecKey == InitKey /\ [][NextKey]_vars

-----------------------------------------------------------------------------
(* Claims about the key obfuscation, checked under SpecKey *)

\* The buffer as it was after operation i.
After(i) == IF i = Len(ops) THEN x ELSE ops[i + 1].in

\* Operation i + 1 undoes operation i on the same session.
Undoes(i, first, second) ==
    /\ ops[i].op = first
    /\ ops[i + 1].op = second
    /\ ops[i + 1].sess = ops[i].sess
    /\ ops[i].ok

\* C1: on one session whose NTCP2 address carries a 32-byte static key,
\* DeobfuscateEphemeral(ObfuscateEphemeral(k)) returns exactly k without an
\* error, and ObfuscateEphemeral(DeobfuscateEphemeral(c)) returns exactly c.
C1_ObfuscateDeobfuscateInverse ==
    \A i \in 1 .. Len(ops) - 1 :
        (Undoes(i, "obfuscate", "deobfuscate") \/ Undoes(i, "deobfuscate", "obfuscate"))
            => ops[i + 1].ok /\ After(i + 1) = ops[i].in

\* A key was obfuscated into a different value and deobfuscation on the same
\* session gave it back.
C1_Witness ==
    /\ Len(ops) = 2
    /\ Undoes(1, "obfuscate", "deobfuscate")
    /\ ops[2].ok
    /\ ops[2].in # ops[1].in
    /\ ops[1].in[1] # ops[1].in[2]
    /\ x = ops[1].in

\* C2: what the initiator's session obfuscates, the responder's inbound session
\* deobfuscates back to the original key, for peers with distinct static keys.
C2_ResponderRecoversKey ==
    \A i \in 1 .. Len(ops) - 1 :
        ( /\ ops[i].op = "obfuscate" /\ ops[i].sess = "I" /\ ops[i].ok
          /\ ops[i + 1].op = "deobfuscate" /\ ops[i + 1].sess = "R" /\ ops[i + 1].ok
          /\ peerStaticKey(respRI).key # peerStaticKey(initRI).key )
            => After(i + 1) = ops[i].in

\* The index of the first address of ri whose style is NTCP2 (0 when none).
FirstNTCP2(ri) ==
    IF \E i \in 1 .. Len(ri) : ri[i].style = NTCP_PROTOCOL_NAME
    THEN CHOOSE i \in 1 .. Len(ri) :
            /\ ri[i].style = NTCP_PROTOCOL_NAME
            /\ \A j \in 1 .. i - 1 : ri[j].style # NTCP_PROTOCOL_NAME
    ELSE 0

\* C3: the static key an operation of a session used is the option "s" of the
\* first address of the session's descriptor whose style is "NTCP2"; other
\* styles and unreadable styles before it are skipped, later NTCP2 addresses
\* are never used.
C3_FirstNTCP2AddressKey ==
    \A i \in 1 .. Len(ops) :
        LET ri == SessionRI(ops[i].sess)
            n == FirstNTCP2(ri)
        IN  /\ ops[i].ok => n > 0 /\ ops[i].static = ri[n].s
            /\ (n > 0 /\ ri[n].s \in Keys) => ops[i].ok

\* A descriptor with two NTCP2 addresses carrying different keys: the session
\* used the key of the first.
C3_Witness ==
    /\ Len(respRI) = 2
    /\ respRI[1].style = NTCP_PROTOCOL_NAME
    /\ respRI[2].style = NTCP_PROTOCOL_NAME
    /\ respRI[1].s \in Keys
    /\ respRI[2].s \in Keys
    /\ respRI[1].s # respRI[2].s
    /\ Len(ops) >= 1
    /\ ops[1].sess = "I"
    /\ ops[1].ok
    /\ ops[1].static = respRI[1].s

-----------------------------------------------------------------------------
(* The transport: Transport.Compatible, Transport.GetSession and           *)
(* Transport.Accept, each call one action.                                 *)

\* The descriptors of the routers the transport deals with.
Routers ==
    { <<>>,
      <<[style |-> "SSU", s |-> NoKey]>>,
      <<[style |-> NTCP_PROTOCOL_NAME, s |-> "K1"]>>,
      <<[style |-> "unreadable", s |-> NoKey], [style |-> NTCP_PROTOCOL_NAME, s |-> "K2"]>> }

\* The dynamic type of the net.Addr that conn.LocalAddr() returns.
AddrTypes == {"*RouterInfo", "RouterInfo", "other"}

\* The loop of Compatible from address i on.
RECURSIVE CompatibleFrom(_, _)
CompatibleFrom(routerInfo, i) ==
    IF i > Len(routerInfo) THEN FALSE
    ELSE IF routerInfo[i].style = "unreadable" THEN CompatibleFrom(routerInfo, i + 1)
    ELSE IF routerInfo[i].style = NTCP_PROTOCOL_NAME THEN TRUE
    ELSE CompatibleFrom(routerInfo, i + 1)

Compatible(routerInfo) == CompatibleFrom(routerInfo, 1)

\* noise.NewNoiseTransportSession: the generic engine's constructor dials the
\* router at an address of its descriptor and returns a session, or an error
\* when there is no address or the dial fails.
NewNoiseTransportSession(ri, dialOK) == [ok |-> dialOK /\ Len(ri) > 0, ri |-> ri]

\* NewNTCP2Session wraps the base session; it adds no check of its own.
NewNTCP2Session(noiseConfig, dialOK) ==
    LET baseNoiseSession == NewNoiseTransportSession(noiseConfig, dialOK)
    IN  IF ~baseNoiseSession.ok THEN [ok |-> FALSE, ri |-> noiseConfig]
        ELSE [ok |-> TRUE, ri |-> baseNoiseSession.ri]

\* session.Handshake: runs messages 1..3; an error closes the connection.
Handshake(hsOK) == [ok |-> hsOK, conn |-> IF hsOK THEN "open" ELSE "closed"]

\* x.(*router_info.RouterInfo), the comma-ok form.
IsRouterInfoPointer(addrType) == addrType = "*RouterInfo"

\* x.(router_info.RouterInfo), the single-value form: panics when it fails.
IsRouterInfoValue(addrType) == addrType = "RouterInfo"

Init ==
    /\ conns = <<>>
    /\ sessions = <<>>
    /\ calls = <<>>
    /\ IdleKey
    /\ IdleRead
    /\ IdleGuard
    /\ IdleData

Returned(op, ri, outcome, conn, constructed, handshook) ==
    [op |-> op, ri |-> ri, outcome |-> outcome, conn |-> conn,
     constructed |-> constructed, handshook |-> handshook]

GetSession(routerInfo, dialOK, hsOK) ==
    /\ Len(calls) < MaxCalls
    /\ LET session == NewNTCP2Session(routerInfo, dialOK)
           c == Len(conns) + 1
           hs == Handshake(hsOK)
       IN  IF ~session.ok
           THEN /\ calls' = Append(calls,
                        Returned("GetSession", routerInfo, "error", 0, FALSE, FALSE))
                /\ UNCHANGED <<conns, sessions>>
           ELSE IF ~hs.ok
           THEN /\ conns' = Append(conns, hs.conn)
                /\ calls' = Append(calls,
                        Returned("GetSession", routerInfo, "error", c, TRUE, TRUE))
                /\ UNCHANGED sessions
           ELSE /\ conns' = Append(conns, hs.conn)
                /\ sessions' = Append(sessions, [ri |-> session.ri, conn |-> c])
                /\ calls' = Append(calls,
                        Returned("GetSession", routerInfo, "session", c, TRUE, TRUE))
    /\ UNCHANGED <<keyVars, readVars, guardVars, dataVars>>

\* The listener's Accept fails: no connection.
AcceptFails ==
    /\ Len(calls) < MaxCalls
    /\ calls' = Append(calls, Returned("Accept", <<>>, "error", 0, FALSE, FALSE))
    /\ UNCHANGED <<conns, sessions, keyVars, readVars, guardVars, dataVars>>

\* The listener hands over a connection whose LocalAddr() has dynamic type
\* addrType and, when it is a router address, descriptor routerAddr.
Accept(addrType, routerAddr, dialOK) ==
    /\ Len(calls) < MaxCalls
    /\ addrType = "other" => routerAddr = <<>>
    /\ LET c == Len(conns) + 1
           session == NewNTCP2Session(routerAddr, dialOK)
       IN  IF ~IsRouterInfoPointer(addrType)
           THEN /\ conns' = Append(conns, "open")
                /\ calls' = Append(calls,
                        Returned("Accept", routerAddr, "error", c, FALSE, FALSE))
                /\ UNCHANGED sessions
           ELSE IF ~Compatible(routerAddr)
           THEN /\ conns' = Append(conns, "open")
                /\ calls' = Append(calls,
                        Returned("Accept", routerAddr, "error", c, FALSE, FALSE))
                /\ UNCHANGED sessions
           ELSE IF ~IsRouterInfoValue(addrType)
           THEN /\ conns' = Append(conns, "open")
                /\ calls' = Append(calls,
                        Returned("Accept", routerAddr, "panic", c, FALSE, FALSE))
                /\ UNCHANGED sessions
           ELSE IF ~session.ok
           THEN /\ conns' = Append(conns, "closed")
                /\ calls' = Append(calls,
                        Returned("Accept", routerAddr, "error", c, FALSE, FALSE))
                /\ UNCHANGED sessions
           ELSE /\ conns' = Append(conns, "open")
                /\ sessions' = Append(sessions, [ri |-> session.ri, conn |-> c])
                /\ calls' = Append(calls,
                        Returned("Accept", routerAddr, "session", c, TRUE, FALSE))
    /\ UNCHANGED <<keyVars, readVars, guardVars, dataVars>>

Next ==
    \/ \E routerInfo \in Routers, dialOK \in BOOLEAN, hsOK \in BOOLEAN :
            GetSession(routerInfo, dialOK, hsOK)
    \/ AcceptFails
    \/ \E addrType \in AddrTypes, routerAddr \in Routers, dialOK \in BOOLEAN :
            Accept(addrType, routerAddr, dialOK)

Spec == Init /\ [][Next]_vars

-----------------------------------------------------------------------------
(* Claims about the transport, checked under Spec *)

\* C4: session construction fails, and returns no session, whenever the
\* descriptor has no address whose style is "NTCP2".
C4_ConstructionFailsWithoutNTCP2 ==
    \A i \in 1 .. Len(calls) :
        ~Compatible(calls[i].ri) => ~calls[i].constructed

\* C5: whenever a call returns an error after a connection was opened for it,
\* that connection has been closed.
C5_ErrorClosesConnection ==
    \A i \in 1 .. Len(calls) :
        (calls[i].outcome = "error" /\ calls[i].conn # 0)
            => conns[calls[i].conn] = "closed"

\* C8: the transport holds at most one session per router, and a GetSession
\* for a router that already has a session runs no new handshake.
C8_OneSessionPerPeer ==
    /\ \A i, j \in 1 .. Len(sessions) : sessions[i].ri = sessions[j].ri => i = j
    /\ \A i, j \in 1 .. Len(calls) :
        ( /\ i < j
          /\ calls[i].op = "GetSession" /\ calls[i].outcome = "session"
          /\ calls[j].op = "GetSession" /\ calls[j].outcome = "session"
          /\ calls[j].ri = calls[i].ri )
            => ~calls[j].handshook /\ calls[j].conn = calls[i].conn

\* C9: Accept never panics, and for a connection whose router address has an
\* NTCP2 address it returns a session wrapping that connection.
C9_AcceptReturnsSessionOrError ==
    \A i \in 1 .. Len(calls) :
        calls[i].op = "Accept" =>
            /\ calls[i].outcome \in {"session", "error"}
            /\ (calls[i].conn # 0 /\ Compatible(calls[i].ri)) =>
                    /\ calls[i].outcome = "session"
                    /\ \E k \in 1 .. Len(sessions) : sessions[k].conn = calls[i].conn

-----------------------------------------------------------------------------
(* SessionRequestProcessor.ReadMessage, one action per step: every step    *)
(* but the deobfuscation and the decryption blocks on the connection.      *)

NTCP_MESSAGE_MAX_SIZE == 65537

EphemeralKeySize == 32

\* The size of the options block on the wire.
OptionsBlockSize == 11

\* The padding lengths a received options block declares: none, small ones,
\* the largest that fits the frame, the first that does not, and the largest
\* a two-byte field holds.
PaddingLens ==
    {0, 1, 255,
     NTCP_MESSAGE_MAX_SIZE - EphemeralKeySize - OptionsBlockSize,
     NTCP_MESSAGE_MAX_SIZE - EphemeralKeySize - OptionsBlockSize + 1,
     65535}

FrameSize(paddingLen) == EphemeralKeySize + OptionsBlockSize + paddingLen

\* The steps of ReadMessage in the order the code writes them.
ReadOrder ==
    <<"readEphemeralKey", "processEphemeralKey", "readOptionsBlock",
      "processOptionsBlock", "readAndValidatePadding">>

\* A faulty variant: the padding is never read nor validated.
NeedsPaddingReadNever(paddingLen) == FALSE

\* if paddingLen > 0 { ... readAndValidatePadding ... }
NeedsPaddingRead(paddingLen) == paddingLen > 0

\* A faulty variant: an error of a step is ignored and the next step runs.
NextStepIgnoringError(step, ok, paddingLen) ==
    IF step = "readEphemeralKey" THEN "processEphemeralKey"
    ELSE IF step = "processEphemeralKey" THEN "readOptionsBlock"
    ELSE IF step = "readOptionsBlock" THEN "processOptionsBlock"
    ELSE IF step = "processOptionsBlock"
         THEN IF NeedsPaddingRead(paddingLen) THEN "readAndValidatePadding" ELSE "return"
    ELSE "return"

\* Where ReadMessage goes after a step: `if err != nil { return nil, err }`,
\* else on to the next statement.
NextStep(step, ok, paddingLen) ==
    IF ~ok THEN "failed"
    ELSE IF step = "readEphemeralKey" THEN "processEphemeralKey"
    ELSE IF step = "processEphemeralKey" THEN "readOptionsBlock"
    ELSE IF step = "readOptionsBlock" THEN "processOptionsBlock"
    ELSE IF step = "processOptionsBlock"
         THEN IF NeedsPaddingRead(paddingLen) THEN "readAndValidatePadding" ELSE "return"
    ELSE "return"

\* readAndValidatePadding refuses a length that makes the frame exceed the
\* maximum before it allocates the buffer.
PaddingFits(paddingLen) == FrameSize(paddingLen) <= NTCP_MESSAGE_MAX_SIZE

InitRead ==
    /\ rpc = "readEphemeralKey"
    /\ rd \in [ri : Routers, obfuscatedX : {<<>>}, deobfuscatedX : {<<>>},
               paddingLen : {0}]
    /\ steps = <<>>
    /\ bytesRead = 0
    /\ allocs = <<>>
    /\ ret = "none"
    /\ IdleKey
    /\ IdleTransport
    /\ IdleGuard
    /\ IdleData

\* One step was performed: log it and move on; a failure returns the error.
Performed(step, ok, paddingLen) ==
    /\ steps' = Append(steps, [name |-> step, ok |-> ok, at |-> bytesRead])
    /\ rpc' = NextStep(step, ok, paddingLen)
    /\ ret' = IF NextStep(step, ok, paddingLen) = "failed" THEN "error" ELSE ret

\* 1. obfuscatedX, err := readEphemeralKey(conn)
ReadEphemeralKey(ok, key) ==
    /\ rpc = "readEphemeralKey"
    /\ Performed("readEphemeralKey", ok, rd.paddingLen)
    /\ rd' = IF ok THEN [rd EXCEPT !.obfuscatedX = key] ELSE rd
    /\ bytesRead' = IF ok THEN bytesRead + EphemeralKeySize ELSE bytesRead
    /\ UNCHANGED <<allocs, keyVars, transportVars, guardVars, dataVars>>

\* 2. deobfuscatedX, err := processEphemeralKey(obfuscatedX, hs)
ProcessEphemeralKey ==
    /\ rpc = "processEphemeralKey"
    /\ LET r == DeobfuscateEphemeral(rd.ri, rd.obfuscatedX)
       IN  /\ Performed("processEphemeralKey", r.ok, rd.paddingLen)
           /\ rd' = IF r.ok THEN [rd EXCEPT !.deobfuscatedX = r.out] ELSE rd
    /\ UNCHANGED <<bytesRead, allocs, keyVars, transportVars, guardVars, dataVars>>

\* 3. encryptedOptions, err := readOptionsBlock(conn)
ReadOptionsBlock(ok) ==
    /\ rpc = "readOptionsBlock"
    /\ Performed("readOptionsBlock", ok, rd.paddingLen)
    /\ bytesRead' = IF ok THEN bytesRead + OptionsBlockSize ELSE bytesRead
    /\ UNCHANGED <<rd, allocs, keyVars, transportVars, guardVars, dataVars>>

\* 4. options, err := processOptionsBlock(...); paddingLen := options.PaddingLength.Int()
ProcessOptionsBlock(ok, paddingLen) ==
    /\ rpc = "processOptionsBlock"
    /\ Performed("processOptionsBlock", ok, paddingLen)
    /\ rd' = IF ok THEN [rd EXCEPT !.paddingLen = paddingLen] ELSE rd
    /\ UNCHANGED <<bytesRead, allocs, keyVars, transportVars, guardVars, dataVars>>

\* 5. readAndValidatePadding(conn, paddingLen): the length is checked, then the
\* buffer is allocated and filled from the connection.
ReadAndValidatePadding(readOK) ==
    /\ rpc = "readAndValidatePadding"
    /\ LET fits == PaddingFits(rd.paddingLen)
           ok == fits /\ readOK
       IN  /\ Performed("readAndValidatePadding", ok, rd.paddingLen)
           /\ allocs' = IF fits THEN Append(allocs, rd.paddingLen) ELSE allocs
           /\ bytesRead' = IF ok THEN bytesRead + rd.paddingLen ELSE bytesRead
    /\ UNCHANGED <<rd, keyVars, transportVars, guardVars, dataVars>>

\* return &messages.SessionRequest{..., Padding: make([]byte, paddingLen)}, nil
ReturnMessage ==
    /\ rpc = "return"
    /\ rpc' = "done"
    /\ ret' = "message"
    /\ allocs' = Append(allocs, rd.paddingLen)
    /\ UNCHANGED <<rd, steps, bytesRead, keyVars, transportVars, guardVars, dataVars>>

NextRead ==
    \/ \E ok \in BOOLEAN, key \in Buffers : ReadEphemeralKey(ok, key)
    \/ ProcessEphemeralKey
    \/ \E ok \in BOOLEAN : ReadOptionsBlock(ok)
    \/ \E ok \in BOOLEAN, paddingLen \in PaddingLens : ProcessOptionsBlock(ok, paddingLen)
    \/ \E readOK \in BOOLEAN : ReadAndValidatePadding(readOK)
    \/ ReturnMessage

SpecRead == InitRead /\ [][NextRead]_vars

-----------------------------------------------------------------------------
(* Claims about reading message 1, checked under SpecRead *)

\* The bytes a successful step consumes from the connection.
StepBytes(name) ==
    IF name = "readEphemeralKey" THEN EphemeralKeySize
    ELSE IF name = "readOptionsBlock" THEN OptionsBlockSize
    ELSE IF name = "readAndValidatePadding" THEN rd.paddingLen
    ELSE 0

RECURSIVE BytesOfSteps(_)
BytesOfSteps(n) ==
    IF n = 0 THEN 0
    ELSE BytesOfSteps(n - 1) + (IF steps[n].ok THEN StepBytes(steps[n].name) ELSE 0)

\* C6: the steps run in the fixed order read key, deobfuscate, read options,
\* decrypt and validate options, consume the padding; a step starts only after
\* the previous one succeeded; after a failing step nothing more is read and
\* no message is returned; a returned message has consumed exactly the
\* declared padding.
C6_FixedStepOrder ==
    /\ Len(steps) <= Len(ReadOrder)
    /\ \A i \in 1 .. Len(steps) :
        /\ steps[i].name = ReadOrder[i]
        /\ i < Len(steps) => steps[i].ok
        /\ steps[i].at = BytesOfSteps(i - 1)
    /\ bytesRead = BytesOfSteps(Len(steps))
    /\ (\E i \in 1 .. Len(steps) : ~steps[i].ok) => ret = "error" /\ rpc = "failed"
    /\ ret = "message" =>
        /\ \A i \in 1 .. Len(steps) : steps[i].ok
        /\ Len(steps) = IF rd.paddingLen > 0 THEN 5 ELSE 4
        /\ bytesRead = FrameSize(rd.paddingLen)

\* A message with padding was returned after all five steps.
C6_Witness ==
    /\ ret = "message"
    /\ Len(steps) = 5
    /\ rd.paddingLen > 1
    /\ rd.deobfuscatedX # rd.obfuscatedX

\* C7: a declared padding length that makes the frame exceed the maximum is
\* rejected before a buffer of that length is allocated, and no frame larger
\* than the maximum is accepted.
C7_OversizePaddingRejected ==
    /\ \A i \in 1 .. Len(allocs) : FrameSize(allocs[i]) <= NTCP_MESSAGE_MAX_SIZE
    /\ ret = "message" => FrameSize(rd.paddingLen) <= NTCP_MESSAGE_MAX_SIZE
    /\ (rpc \in {"return", "done", "failed"} /\ Len(steps) >= 4 /\ steps[4].ok
            /\ FrameSize(rd.paddingLen) > NTCP_MESSAGE_MAX_SIZE)
        => ret = "error" /\ allocs = <<>>

\* An oversize declared length was refused and nothing was allocated.
C7_Witness ==
    /\ FrameSize(rd.paddingLen) > NTCP_MESSAGE_MAX_SIZE
    /\ Len(steps) = 5
    /\ ~steps[5].ok
    /\ ret = "error"
    /\ allocs = <<>>
    /\ bytesRead = EphemeralKeySize + OptionsBlockSize

-----------------------------------------------------------------------------
(* One session shared by concurrent callers.  NoiseSession embeds a        *)
(* sync.Mutex; Handshake, Read and Write hold it from their first step to  *)
(* their last.                                                             *)

Callers == {"a", "b"}

Operations == {"Handshake", "Read", "Write"}

\* The invocations started so far.
Started == Cardinality({glog[i].inv : i \in 1 .. Len(glog)})

InitGuard ==
    /\ mutex = "free"
    /\ cpc = [c \in Callers |-> "idle"]
    /\ cop = [c \in Callers |-> [op |-> "none", inv |-> 0]]
    /\ hsState = "handshaking"
    /\ glog = <<>>
    /\ IdleKey
    /\ IdleTransport
    /\ IdleRead
    /\ IdleData

Logged(c, step) == Append(glog, [caller |-> c, op |-> cop[c].op, inv |-> cop[c].inv,
                                 step |-> step])

\* A faulty variant: Lock does not wait for the holder.
CanLockAlways(c) == TRUE

\* sync.Mutex.Lock returns only when nobody holds the mutex.
CanLock(c) == mutex = "free"

\* A caller invokes an operation on the session.
Call(c, op) ==
    /\ cpc[c] = "idle"
    /\ Len(glog) < MaxLog
    /\ cop' = [cop EXCEPT ![c] = [op |-> op, inv |-> Started + 1]]
    /\ cpc' = [cpc EXCEPT ![c] = "lock"]
    /\ glog' = Append(glog, [caller |-> c, op |-> op, inv |-> Started + 1,
                             step |-> "call"])
    /\ UNCHANGED <<mutex, hsState, keyVars, transportVars, readVars, dataVars>>

\* The caller takes the guard and sees what is left to do.
Lock(c) ==
    /\ cpc[c] = "lock"
    /\ CanLock(c)
    /\ mutex' = c
    /\ cpc' = [cpc EXCEPT ![c] =
            IF hsState = "closed" THEN "unlock"
            ELSE IF cop[c].op = "Handshake"
                 THEN IF hsState = "established" THEN "unlock" ELSE "msg1"
            ELSE "io"]
    /\ UNCHANGED <<cop, hsState, glog, keyVars, transportVars, readVars, dataVars>>

\* One handshake message is sent or received; an error closes the session.
HandshakeStep(c, ok) ==
    /\ cpc[c] \in {"msg1", "msg2", "msg3"}
    /\ glog' = Logged(c, cpc[c])
    /\ cpc' = [cpc EXCEPT ![c] =
            IF ~ok THEN "unlock"
            ELSE IF cpc[c] = "msg1" THEN "msg2"
            ELSE IF cpc[c] = "msg2" THEN "msg3"
            ELSE "unlock"]
    /\ hsState' = IF ~ok THEN "closed"
                  ELSE IF cpc[c] = "msg3" THEN "established"
                  ELSE hsState
    /\ UNCHANGED <<mutex, cop, keyVars, transportVars, readVars, dataVars>>

\* The read or write of the stream.
Io(c) ==
    /\ cpc[c] = "io"
    /\ glog' = Logged(c, "io")
    /\ cpc' = [cpc EXCEPT ![c] = "unlock"]
    /\ UNCHANGED <<mutex, cop, hsState, keyVars, transportVars, readVars, dataVars>>

\* The operation returns and releases the guard.
Unlock(c) ==
    /\ cpc[c] = "unlock"
    /\ mutex' = "free"
    /\ cpc' = [cpc EXCEPT ![c] = "idle"]
    /\ glog' = Logged(c, "return")
    /\ cop' = [cop EXCEPT ![c] = [op |-> "none", inv |-> 0]]
    /\ UNCHANGED <<hsState, keyVars, transportVars, readVars, dataVars>>

NextGuard ==
    \/ \E c \in Callers, op \in Operations : Call(c, op)
    \/ \E c \in Callers : Lock(c)
    \/ \E c \in Callers, ok \in BOOLEAN : HandshakeStep(c, ok)
    \/ \E c \in Callers : Io(c)
    \/ \E c \in Callers : Unlock(c)

SpecGuard == InitGuard /\ [][NextGuard]_vars

-----------------------------------------------------------------------------
(* Claims about the per-session guard, checked under SpecGuard *)

\* The entries of the log that are work on the session, not calls.
IsWork(i) == glog[i].step \in {"msg1", "msg2", "msg3", "io", "return"}

\* C10: the steps of one handshake invocation are not interleaved with the
\* steps of another caller's handshake, Read or Write on the same session.
C10_HandshakeNotInterleaved ==
    \A i, j, k \in 1 .. Len(glog) :
        ( /\ i < j /\ j < k
          /\ glog[i].op = "Handshake" /\ IsWork(i)
          /\ glog[k].inv = glog[i].inv
          /\ IsWork(j) )
            => glog[j].inv = glog[i].inv

\* A second caller invoked an operation while a handshake was running and the
\* handshake's messages still ran back to back.
C10_Witness ==
    /\ Len(glog) >= 4
    /\ glog[1].op = "Handshake"
    /\ glog[2].step = "msg1"
    /\ glog[3].step = "call"
    /\ glog[3].caller # glog[1].caller
    /\ glog[4].step = "msg2"
    /\ cpc[glog[3].caller] = "lock"

(***************************************************************************)
(* RouterAddress: serialization and parsing.                                *)
(*                                                                         *)
(* Byte strings are sequences of numbers in 0..255.  A RouterAddress holds  *)
(* its four fields in their wire form: cost is a 1-byte Integer, expiration *)
(* an 8-byte Date, transport_style a String (one length byte, then the      *)
(* content), options a Mapping (a 2-byte size, then that many bytes).       *)
(***************************************************************************)
DATE_SIZE == 8

Drop(s, n) == SubSeq(s, n + 1, Len(s))

Take(s, n) == SubSeq(s, 1, n)

\* The String holding the given content.
ToI2PString(content) == <<Len(content)>> \o content

\* I2PString.Data: the content of the String, without its length byte; an
\* error when the String is empty or its length byte disagrees with it.
I2PStringData(str) ==
    IF Len(str) = 0 \/ str[1] # Len(str) - 1
    THEN [data |-> <<>>, err |-> "error"]
    ELSE [data |-> Tail(str), err |-> "nil"]

\* NewInteger(data, size): the first size bytes.
NewInteger(data, size) ==
    IF Len(data) < size
    THEN [val |-> data, remainder |-> <<>>, err |-> "error"]
    ELSE [val |-> Take(data, size), remainder |-> Drop(data, size), err |-> "nil"]

\* NewDate(data): the first DATE_SIZE bytes.
NewDate(data) ==
    IF Len(data) < DATE_SIZE
    THEN [val |-> <<>>, remainder |-> <<>>, err |-> "error"]
    ELSE [val |-> Take(data, DATE_SIZE), remainder |-> Drop(data, DATE_SIZE),
          err |-> "nil"]

\* NewI2PString(data): the length byte and as many bytes as it announces.
NewI2PString(data) ==
    IF Len(data) = 0
    THEN [val |-> <<>>, remainder |-> <<>>, err |-> "error"]
    ELSE IF Len(data) - 1 < data[1]
         THEN [val |-> data, remainder |-> <<>>, err |-> "error"]
         ELSE [val |-> Take(data, data[1] + 1),
               remainder |-> Drop(data, data[1] + 1), err |-> "nil"]

\* NewMapping(data): the 2-byte size and as many bytes as it announces.
NewMapping(data) ==
    IF Len(data) < 2
    THEN [val |-> <<>>, remainder |-> <<>>, errs |-> "error"]
    ELSE LET size == (256 * data[1]) + data[2]
         IN IF Len(data) - 2 < size
            THEN [val |-> data, remainder |-> <<>>, errs |-> "error"]
            ELSE [val |-> Take(data, size + 2),
                  remainder |-> Drop(data, size + 2), errs |-> "nil"]

\* RouterAddress.Bytes: cost.Bytes(), expiration.Bytes(), the Data() of the
\* transport style (left out when Data() fails), then options.Data().  The
\* Bytes() of an Integer or a Date and the Data() of a Mapping are their wire
\* form, which is how the model holds them.
RouterAddressBytes(router_address) ==
    LET strData == I2PStringData(router_address.transport_style)
    IN router_address.cost
         \o router_address.expiration
         \o (IF strData.err # "nil" THEN <<>> ELSE strData.data)
         \o router_address.options

\* ReadRouterAddress: the four fields are parsed one after the other, each
\* parse overwriting err; the errors of the Mapping are only logged.  The
\* errors of all four parses are kept in errCost .. errOptions for reference.
ReadRouterAddress(data) ==
    IF Len(data) = 0
    THEN [router_address |-> [cost |-> <<>>, expiration |-> <<>>,
                              transport_style |-> <<>>, options |-> <<>>],
          remainder |-> <<>>, err |-> "error",
          errCost |-> "nil", errExpiration |-> "nil",
          errStyle |-> "nil", errOptions |-> "nil"]
    ELSE LET cost == NewInteger(data, 1)
             expiration == NewDate(cost.remainder)
             transport_style == NewI2PString(expiration.remainder)
             options == NewMapping(transport_style.remainder)
         IN [router_address |-> [cost |-> cost.val,
                                 expiration |-> expiration.val,
                                 transport_style |-> transport_style.val,
                                 options |-> options.val],
             remainder |-> options.remainder,
             err |-> transport_style.err,
             errCost |-> cost.err, errExpiration |-> expiration.err,
             errStyle |-> transport_style.err, errOptions |-> options.errs]

\* "NTCP2", "SSU" and "A", as bytes.
StyleContents == {<<78, 84, 67, 80, 50>>, <<83, 83, 85>>, <<65>>}

\* Date 0 never expires.
Dates == {<<0, 0, 0, 0, 0, 0, 0, 0>>, <<0, 0, 1, 147, 0, 0, 0, 1>>}

\* The empty mapping, {"s": "K"} and {"a": ""}.
Mappings == {<<0, 0>>, <<0, 6, 1, 115, 61, 1, 75, 59>>, <<0, 5, 1, 97, 61, 0, 59>>}

\* The valid RouterAddress values the model draws from.
RouterAddresses ==
    [cost : {<<0>>, <<5>>, <<255>>},
     expiration : Dates,
     transport_style : {ToI2PString(c) : c \in StyleContents},
     options : Mappings]

InitAddr ==
    /\ ra \in RouterAddresses
    /\ raBytes = <<>>
    /\ raRead = <<>>
    /\ IdleKey
    /\ IdleTransport
    /\ IdleRead
    /\ IdleGuard
    /\ IdleKc
    /\ IdleRest

\* x.Bytes()
Serialize ==
    /\ raBytes = <<>>
    /\ raBytes' = RouterAddressBytes(ra)
    /\ UNCHANGED <<ra, raRead, keyVars, transportVars, readVars, guardVars, kcVars, dsaVars, lsVars, crVars, lenVars>>

\* Bytes arrive from elsewhere: the wire form of the address (cost,
\* expiration, the String of the style, the options) or a prefix of it.
Receive ==
    /\ raBytes = <<>>
    /\ \E k \in 1..Len(ra.cost \o ra.expiration \o ra.transport_style \o ra.options) :
          raBytes' = Take(ra.cost \o ra.expiration \o ra.transport_style
                            \o ra.options, k)
    /\ UNCHANGED <<ra, raRead, keyVars, transportVars, readVars, guardVars, kcVars, dsaVars, lsVars, crVars, lenVars>>

\* ReadRouterAddress(data), on x.Bytes() or on the bytes received.
Parse ==
    /\ raBytes # <<>>
    /\ raRead = <<>>
    /\ raRead' = <<ReadRouterAddress(raBytes)>>
    /\ UNCHANGED <<ra, raBytes, keyVars, transportVars, readVars, guardVars, kcVars, dsaVars, lsVars, crVars, lenVars>>

NextAddr == Serialize \/ Receive \/ Parse

SpecAddr == InitAddr /\ [][NextAddr]_vars

\* C11: for every valid RouterAddress x, ReadRouterAddress(x.Bytes()) returns
\* a RouterAddress equal to x in all four fields, an empty remainder and no
\* error.
C11_RouterAddressRoundTrip ==
    (Len(raRead) = 1 /\ raBytes = RouterAddressBytes(ra)) =>
        /\ raRead[1].err = "nil"
        /\ raRead[1].remainder = <<>>
        /\ raRead[1].router_address = ra

(***************************************************************************)
(* KeysAndCert: ReadKeys and ReadKeysAndCert.                               *)
(*                                                                         *)
(* The input is the 256-byte public key slot, the 128-byte signing key      *)
(* slot and a certificate: type byte, 2-byte payload length, payload.       *)
(* A Certificate is its type, its declared payload length and the payload   *)
(* bytes it holds; the keys are described below.                            *)
(***************************************************************************)
KEYS_AND_CERT_PUBKEY_SIZE == 256

KEYS_AND_CERT_SPK_SIZE == 128

KEYS_AND_CERT_MIN_SIZE == 387

KEYS_AND_CERT_DATA_SIZE == 384

CERT_KEY == 5

Zeros(n) == [i \in 1..n |-> 0]

\* The zero value of the Certificate struct.
ZeroCertificate == [type |-> 0, len |-> 0, payload |-> <<>>]

\* A key is its kind ("crypto" or "signing"), its type code (0 in both kinds
\* is the legacy scheme: ElGamal, DSA-SHA1) and its bytes.
NoPublicKey == [kind |-> "nil", type |-> 0, bytes |-> <<>>]

\* ReadCertificate(data): type, declared length and the payload bytes that
\* are there; an error when fewer than the declared bytes are there.
ReadCertificate(data) ==
    IF Len(data) < 3
    THEN [cert |-> ZeroCertificate, remainder |-> <<>>, err |-> "error"]
    ELSE LET length == (256 * data[2]) + data[3]
         IN IF Len(data) - 3 < length
            THEN [cert |-> [type |-> data[1], len |-> length,
                            payload |-> Drop(data, 3)],
                  remainder |-> <<>>, err |-> "error"]
            ELSE [cert |-> [type |-> data[1], len |-> length,
                            payload |-> SubSeq(data, 4, 3 + length)],
                  remainder |-> Drop(data, 3 + length), err |-> "nil"]

\* Certificate.Length: the declared length, with an error when the payload
\* held is shorter.  (Certificate.Type is the type field and Certificate.Cert
\* the payload held.)
CertificateLength(cert) ==
    [length |-> cert.len,
     err |-> IF Len(cert.payload) < cert.len THEN "error" ELSE "nil"]

\* The size in bytes of a key of the given crypto type / signing type; 0 for
\* a type that is not known.
CryptoKeySize(type) == IF type = 0 THEN KEYS_AND_CERT_PUBKEY_SIZE ELSE 0

SigningKeySize(type) ==
    CASE type = 0 -> KEYS_AND_CERT_SPK_SIZE
      [] type = 1 -> 64
      [] type = 7 -> 32
      [] OTHER -> 0

\* KeyCertificate{PKType: t}.ConstructPublicKey(data) and
\* KeyCertificate{SPKType: t}.ConstructSigningPublicKey(data): a key of the
\* type held in the KeyCertificate, taken from the slot (a signing key
\* shorter than the slot sits at its end, after the padding).
ConstructPublicKey(PKType, data) ==
    IF CryptoKeySize(PKType) = 0
    THEN [key |-> NoPublicKey, err |-> "nil"]
    ELSE [key |-> [kind |-> "crypto", type |-> PKType,
                   bytes |-> Take(data, CryptoKeySize(PKType))],
          err |-> "nil"]

ConstructSigningPublicKey(SPKType, data) ==
    IF SigningKeySize(SPKType) = 0
    THEN [key |-> NoPublicKey, err |-> "nil"]
    ELSE [key |-> [kind |-> "signing", type |-> SPKType,
                   bytes |-> Drop(data, Len(data) - SigningKeySize(SPKType))],
          err |-> "nil"]

\* ReadKeys(data, cert).  Besides the four results, the record holds the
\* caller's data as the call leaves it and the function's own copy of cert.
\*  - without a KEY certificate the public key is a fresh ElgPublicKey:
\*    copy(data[:256], elg_key[:]) copies the zero key INTO data, and the
\*    zero key is returned;
\*  - the signing key is copied from data[256:384];
\*  - with a KEY certificate both keys are constructed from a KeyCertificate
\*    whose type field is cert_type;
\*  - a certificate longer than the data is completed on the function's copy
\*    of cert, and err is the error of cert.Length().
ReadKeys(data, cert) ==
    IF Len(data) < KEYS_AND_CERT_MIN_SIZE
    THEN [spk |-> NoPublicKey, pk |-> NoPublicKey, remainder |-> <<>>,
          err |-> "error", data |-> data, cert |-> cert]
    ELSE LET cert_type == cert.type
             spkSlot == SubSeq(data, KEYS_AND_CERT_PUBKEY_SIZE + 1,
                               KEYS_AND_CERT_PUBKEY_SIZE + KEYS_AND_CERT_SPK_SIZE)
             pkR == IF cert_type = CERT_KEY
                    THEN ConstructPublicKey(cert_type,
                                            Take(data, KEYS_AND_CERT_PUBKEY_SIZE))
                    ELSE [key |-> [kind |-> "crypto", type |-> 0,
                                   bytes |-> Zeros(KEYS_AND_CERT_PUBKEY_SIZE)],
                          err |-> "nil"]
             dataAfter == IF cert_type = CERT_KEY
                          THEN data
                          ELSE Zeros(KEYS_AND_CERT_PUBKEY_SIZE)
                                 \o Drop(data, KEYS_AND_CERT_PUBKEY_SIZE)
             spkR == IF cert_type = CERT_KEY
                     THEN ConstructSigningPublicKey(cert_type, spkSlot)
                     ELSE [key |-> [kind |-> "signing", type |-> 0,
                                   bytes |-> spkSlot],
                           err |-> "nil"]
             keyErr == spkR.err
             cert_len == CertificateLength(cert)
         IN IF cert_len.length = 0
            THEN [spk |-> spkR.key, pk |-> pkR.key,
                  remainder |-> Drop(data, KEYS_AND_CERT_MIN_SIZE),
                  err |-> keyErr, data |-> dataAfter, cert |-> cert]
            ELSE IF Len(data) < KEYS_AND_CERT_MIN_SIZE + cert_len.length
                 THEN [spk |-> spkR.key, pk |-> pkR.key, remainder |-> <<>>,
                       err |-> cert_len.err, data |-> dataAfter,
                       cert |-> [cert EXCEPT !.payload =
                                   cert.payload
                                     \o Drop(data, KEYS_AND_CERT_MIN_SIZE)]]
                 ELSE [spk |-> spkR.key, pk |-> pkR.key,
                       remainder |-> Drop(data, KEYS_AND_CERT_MIN_SIZE
                                                  + cert_len.length),
                       err |-> keyErr, data |-> dataAfter,
                       cert |-> [cert EXCEPT !.payload =
                                   cert.payload
                                     \o SubSeq(data, KEYS_AND_CERT_MIN_SIZE + 1,
                                               KEYS_AND_CERT_MIN_SIZE
                                                 + cert_len.length)]]

ZeroKeysAndCert ==
    [SigningPublicKey |-> NoPublicKey, PublicKey |-> NoPublicKey,
     Certificate |-> ZeroCertificate]

\* ReadKeysAndCert(data): a certificate is read from data[:387] and dropped
\* for keys_and_cert.GetCertificate(), the certificate of the still empty
\* result, which ReadKeys then gets.
\* The record also holds the results of that ReadKeys call.
ReadKeysAndCert(data) ==
    IF Len(data) < KEYS_AND_CERT_MIN_SIZE
    THEN [keys_and_cert |-> ZeroKeysAndCert, remainder |-> <<>>,
          err |-> "error", keys |-> <<>>]
    ELSE LET first == ReadCertificate(Take(data, KEYS_AND_CERT_MIN_SIZE))
             cert == ZeroKeysAndCert.Certificate
             keys == ReadKeys(data, cert)
         IN IF first.err # "nil"
            THEN [keys_and_cert |-> ZeroKeysAndCert,
                  remainder |-> first.remainder, err |-> first.err,
                  keys |-> <<>>]
            ELSE IF keys.err # "nil"
                 THEN [keys_and_cert |-> ZeroKeysAndCert,
                       remainder |-> keys.remainder, err |-> keys.err,
                       keys |-> <<keys>>]
                 ELSE [keys_and_cert |-> [SigningPublicKey |-> keys.spk,
                                          PublicKey |-> keys.pk,
                                          Certificate |-> cert],
                       remainder |-> keys.remainder, err |-> "nil",
                       keys |-> <<keys>>]

\* Two public key slots (the second starts with three zero bytes) and two
\* signing key slots.
PublicKeySlots ==
    {[i \in 1..KEYS_AND_CERT_PUBKEY_SIZE |-> i % 256],
     [i \in 1..KEYS_AND_CERT_PUBKEY_SIZE |-> IF i <= 3 THEN 0 ELSE (i * 7) % 256]}

SigningKeySlots ==
    {[i \in 1..KEYS_AND_CERT_SPK_SIZE |-> (i + 100) % 256],
     [i \in 1..KEYS_AND_CERT_SPK_SIZE |-> (i * 3) % 256]}

\* The inputs hold a NULL (0), a HASHCASH (1) or a KEY certificate header.
\* The bytes after the certificate header: nothing, half a key certificate
\* payload (signing type 7, crypto type 0), a whole one, a whole one and one
\* byte more.
CertTails == {<<>>, <<0, 7>>, <<0, 7, 0, 0>>, <<0, 7, 0, 0, 9>>}

KcInputs ==
    {pk \o spk \o <<type, 0, declared>> \o tail :
        pk \in PublicKeySlots, spk \in SigningKeySlots,
        type \in {0, 1, CERT_KEY},
        declared \in {0, 4}, tail \in CertTails}

InitKc ==
    /\ kcData \in KcInputs
    /\ kcRet = <<>>
    /\ IdleKey
    /\ IdleTransport
    /\ IdleRead
    /\ IdleGuard
    /\ IdleAddr
    /\ IdleRest

\* The certificate found in the data after the 384 bytes of key slots.
CertificateInside(data) ==
    ReadCertificate(Drop(data, KEYS_AND_CERT_DATA_SIZE)).cert

\* A caller reads the certificate of the data and hands it to ReadKeys.
CallReadKeys ==
    /\ kcRet = <<>>
    /\ kcRet' = <<[op |-> "ReadKeys", cert |-> CertificateInside(kcData),
                   keys |-> <<ReadKeys(kcData, CertificateInside(kcData))>>,
                   remainder |-> ReadKeys(kcData, CertificateInside(kcData)).remainder,
                   err |-> ReadKeys(kcData, CertificateInside(kcData)).err]>>
    /\ UNCHANGED <<kcData, keyVars, transportVars, readVars, guardVars, addrVars, dsaVars, lsVars, crVars, lenVars>>

\* ReadKeysAndCert, the caller of ReadKeys in the package.
CallReadKeysAndCert ==
    /\ kcRet = <<>>
    /\ LET r == ReadKeysAndCert(kcData)
       IN kcRet' = <<[op |-> "ReadKeysAndCert",
                      cert |-> r.keys_and_cert.Certificate,
                      keys |-> r.keys, remainder |-> r.remainder,
                      err |-> r.err]>>
    /\ UNCHANGED <<kcData, keyVars, transportVars, readVars, guardVars, addrVars, dsaVars, lsVars, crVars, lenVars>>

NextKc == CallReadKeys \/ CallReadKeysAndCert

SpecKc == InitKc /\ [][NextKc]_vars

\* The ReadKeys call made, when one was made.
KeysRead == Len(kcRet) = 1 /\ Len(kcRet[1].keys) = 1

InputCertType == kcData[KEYS_AND_CERT_DATA_SIZE + 1]

InputCertLen ==
    (256 * kcData[KEYS_AND_CERT_DATA_SIZE + 2]) + kcData[KEYS_AND_CERT_MIN_SIZE]

\* The signing and crypto key types a key certificate payload declares.
DeclaredSigningType ==
    (256 * kcData[KEYS_AND_CERT_MIN_SIZE + 1]) + kcData[KEYS_AND_CERT_MIN_SIZE + 2]

DeclaredCryptoType ==
    (256 * kcData[KEYS_AND_CERT_MIN_SIZE + 3]) + kcData[KEYS_AND_CERT_MIN_SIZE + 4]

\* C12: without a KEY certificate ReadKeys returns the 256 bytes of the
\* public key slot as a legacy public key and the 128 bytes of the signing
\* key slot as a legacy signing key; with a KEY certificate the keys have the
\* types and sizes the certificate declares.
C12_ReadKeysKeyInterpretation ==
    KeysRead =>
        LET keys == kcRet[1].keys[1]
        IN /\ InputCertType # CERT_KEY =>
                /\ keys.pk = [kind |-> "crypto", type |-> 0,
                              bytes |-> Take(kcData, KEYS_AND_CERT_PUBKEY_SIZE)]
                /\ keys.spk = [kind |-> "signing", type |-> 0,
                               bytes |-> SubSeq(kcData, KEYS_AND_CERT_PUBKEY_SIZE + 1,
                                                KEYS_AND_CERT_DATA_SIZE)]
           /\ (InputCertType = CERT_KEY /\ InputCertLen = 4
                 /\ Len(kcData) >= KEYS_AND_CERT_MIN_SIZE + 4) =>
                /\ keys.pk.kind = "crypto"
                /\ keys.pk.type = DeclaredCryptoType
                /\ Len(keys.pk.bytes) = CryptoKeySize(DeclaredCryptoType)
                /\ keys.spk.kind = "signing"
                /\ keys.spk.type = DeclaredSigningType
                /\ Len(keys.spk.bytes) = SigningKeySize(DeclaredSigningType)

\* The certificate of the data declares more payload than the data holds.
CertOverdeclared ==
    InputCertLen > Len(kcData) - KEYS_AND_CERT_MIN_SIZE

\* The certificate of the data with the payload bytes that are there.
TruncatedCertificate ==
    [type |-> InputCertType, len |-> InputCertLen,
     payload |-> Drop(kcData, KEYS_AND_CERT_MIN_SIZE)]

\* C13: when the certificate declares a payload longer than the bytes after
\* the 387-byte minimum, ReadKeys returns the keys and the truncated
\* certificate together with a non-nil error.
C13_TruncatedCertificateHasError ==
    (KeysRead /\ CertOverdeclared) =>
        /\ kcRet[1].keys[1].err # "nil"
        /\ kcRet[1].err # "nil"
        /\ kcRet[1].keys[1].pk # NoPublicKey
        /\ kcRet[1].keys[1].spk # NoPublicKey
        /\ kcRet[1].cert = TruncatedCertificate

(***************************************************************************)
(* Legacy (DSA) signatures.                                                 *)
(*                                                                         *)
(* The model is scaled: a byte holds 4 bits, the group parameters are the   *)
(* prime p = 503, the prime q = 251 dividing p - 1 and the generator g = 4  *)
(* of order q.  As in the program, q fills the private key and each half of *)
(* a signature exactly (2 bytes here, 20 there) and p fills the public key  *)
(* exactly (3 bytes here, 128 there), so keys, r and s with leading zero    *)
(* bytes occur as they do in the program.                                   *)
(***************************************************************************)
Base == 16

dsap == 503

dsaq == 251

dsag == 4

\* big.Int.Bytes: the big-endian bytes of v without leading zeros.
RECURSIVE Bytes(_)
Bytes(v) == IF v = 0 THEN <<>> ELSE Append(Bytes(v \div Base), v % Base)

\* big.Int.SetBytes: the value of big-endian bytes.
RECURSIVE SetBytes(_)
SetBytes(b) ==
    IF b = <<>> THEN 0
    ELSE (SetBytes(SubSeq(b, 1, Len(b) - 1)) * Base) + b[Len(b)]

\* big.Int.Exp(b, e, m)
RECURSIVE Exp(_, _, _)
Exp(b, e, m) ==
    IF e = 0 THEN 1 % m
    ELSE LET h == Exp(b, e \div 2, m)
         IN IF e % 2 = 0 THEN (h * h) % m ELSE (((h * h) % m) * (b % m)) % m

\* big.Int.ModInverse(a, m), for a not a multiple of the prime m.
ModInverse(a, m) == CHOOSE w \in 1..(m - 1) : (w * a) % m = 1

\* The sizes of DSAPrivateKey, DSAPublicKey and of a signature.
PrivateKeySize == Len(Bytes(dsaq))

PublicKeySize == Len(Bytes(dsap))

SignatureSize == 2 * PrivateKeySize

\* copy(dst[lo:hi], src), with Go's 0-based bounds.
Copy(dst, lo, hi, src) ==
    LET n == IF hi - lo < Len(src) THEN hi - lo ELSE Len(src)
    IN [i \in 1..Len(dst) |-> IF i > lo /\ i <= lo + n THEN src[i - lo] ELSE dst[i]]

\* sha1.Sum, as a table over the data of the model.
sha1Sum(data) ==
    CASE data = "d0" -> <<0, 0>>
      [] data = "d1" -> <<10, 7>>
      [] OTHER -> <<15, 15>>

\* createDSAPrivkey(X): nil unless X < p.
createDSAPrivkey(X) ==
    IF X < dsap
    THEN [nil |-> FALSE, X |-> X, Y |-> Exp(dsag, X, dsap)]
    ELSE [nil |-> TRUE, X |-> 0, Y |-> 0]

\* DSAPrivateKey.Generate on the zero key, dk.X being the private value
\* drawn: copy(k[:], dk.X.Bytes()).
Generate(X) == Copy(Zeros(PrivateKeySize), 0, PrivateKeySize, Bytes(X))

\* DSAPrivateKey.NewSigner: the private key the signer holds.
NewSigner(k) == createDSAPrivkey(SetBytes(k))

\* DSAPrivateKey.Public: copy(pk[:], p.Y.Bytes()).
Public(k) ==
    LET p == createDSAPrivkey(SetBytes(k))
    IN IF p.nil
       THEN [pk |-> Zeros(PublicKeySize), err |-> "ErrInvalidKeyFormat"]
       ELSE [pk |-> Copy(Zeros(PublicKeySize), 0, PublicKeySize, Bytes(p.Y)),
             err |-> "nil"]

\* DSAPublicKey.NewVerifier: the Y the verifier holds.
NewVerifier(pk) == SetBytes(pk)

\* crypto/dsa.Sign with the nonce it drew: (r, s).
dsaSign(priv, h, nonce) ==
    LET z == SetBytes(Take(h, PrivateKeySize))
        r == Exp(dsag, nonce, dsap) % dsaq
    IN [r |-> r,
        s |-> (ModInverse(nonce, dsaq) * ((z + (priv.X * r)) % dsaq)) % dsaq]

\* crypto/dsa.Verify
dsaVerify(Y, h, r, s) ==
    IF r < 1 \/ r >= dsaq \/ s < 1 \/ s >= dsaq
    THEN FALSE
    ELSE LET w == ModInverse(s, dsaq)
             z == SetBytes(Take(h, PrivateKeySize))
             u1 == (z * w) % dsaq
             u2 == (r * w) % dsaq
         IN ((Exp(dsag, u1, dsap) * Exp(Y, u2, dsap)) % dsap) % dsaq = r

\* A faulty variant of SignHash: r and s copied to the start of their halves.
SignHashLeftAligned(r, s) ==
    Copy(Copy(Zeros(SignatureSize), 0, PrivateKeySize, Bytes(r)),
         PrivateKeySize, SignatureSize, Bytes(s))

\* DSASigner.SignHash, from the (r, s) of dsa.Sign on: each value is copied
\* to the end of its half of the zeroed signature.
SignHash(r, s) ==
    LET rb == Bytes(r)
        sb == Bytes(s)
    IN Copy(Copy(Zeros(SignatureSize),
                 PrivateKeySize - Len(rb), PrivateKeySize, rb),
            PrivateKeySize + (PrivateKeySize - Len(sb)), SignatureSize, sb)

\* A faulty variant of VerifyHash: longer signatures pass the size check.
VerifyHashAtLeast(Y, h, sig) ==
    IF Len(sig) >= SignatureSize
    THEN IF dsaVerify(Y, h, SetBytes(Take(sig, PrivateKeySize)),
                      SetBytes(SubSeq(sig, PrivateKeySize + 1, SignatureSize)))
         THEN "nil" ELSE "ErrInvalidSignature"
    ELSE "ErrBadSignatureSize"

\* DSAVerifier.VerifyHash
VerifyHash(Y, h, sig) ==
    IF Len(sig) = SignatureSize
    THEN IF dsaVerify(Y, h, SetBytes(Take(sig, PrivateKeySize)),
                      SetBytes(Drop(sig, PrivateKeySize)))
         THEN "nil" ELSE "ErrInvalidSignature"
    ELSE "ErrBadSignatureSize"

\* DSAVerifier.Verify
Verify(Y, data, sig) == VerifyHash(Y, sha1Sum(data), sig)

Messages == {"d0", "d1"}

\* The nonces dsa.Sign may draw in the model.
Nonces == {1, 7, 100}

InitDsa ==
    /\ dsaKey = <<>>
    /\ dsaSig = <<>>
    /\ dsaVerdict = <<>>
    /\ IdleKey
    /\ IdleTransport
    /\ IdleRead
    /\ IdleGuard
    /\ IdleAddr
    /\ IdleKc
    /\ IdleLs
    /\ IdleCr
    /\ IdleLen

\* k.Generate(): dsa.GenerateKey draws X in 1..q-1.
GenerateKey ==
    /\ dsaKey = <<>>
    /\ \E X \in 1..(dsaq - 1) : dsaKey' = Generate(X)
    /\ UNCHANGED <<dsaSig, dsaVerdict, keyVars, transportVars, readVars,
                   guardVars, addrVars, kcVars, lsVars, crVars, lenVars>>

\* A DSAPrivateKey that was not generated here: any bytes of its size.
LoadKey ==
    /\ dsaKey = <<>>
    /\ dsaKey' \in [1..PrivateKeySize -> 0..(Base - 1)]
    /\ UNCHANGED <<dsaSig, dsaVerdict, keyVars, transportVars, readVars,
                   guardVars, addrVars, kcVars, lsVars, crVars, lenVars>>

\* signer.Sign(data): sha1, dsa.Sign (which draws nonces until r and s are
\* not 0), SignHash.
Sign ==
    /\ dsaKey # <<>>
    /\ dsaSig = <<>>
    /\ \E data \in Messages, nonce \in Nonces :
          LET rs == dsaSign(NewSigner(dsaKey), sha1Sum(data), nonce)
          IN /\ rs.r # 0
             /\ rs.s # 0
             /\ dsaSig' = <<[data |-> data, r |-> rs.r, s |-> rs.s,
                             sig |-> SignHash(rs.r, rs.s)]>>
    /\ UNCHANGED <<dsaKey, dsaVerdict, keyVars, transportVars, readVars,
                   guardVars, addrVars, kcVars, lsVars, crVars, lenVars>>

\* The signatures handed to the verifier: the one made, it with its last
\* byte changed, shortened by a byte, lengthened by a byte, and none.
Presented(sig) ==
    {sig,
     [sig EXCEPT ![Len(sig)] = (sig[Len(sig)] + 1) % Base],
     Take(sig, Len(sig) - 1),
     Append(sig, 0),
     <<>>}

\* verifier.Verify(data, sig), the verifier made from k.Public(); the key
\* Public() returned and the Y of the verifier are kept with the verdict.
VerifyCall ==
    /\ dsaSig # <<>>
    /\ dsaVerdict = <<>>
    /\ Public(dsaKey).err = "nil"
    /\ \E data \in Messages, sig \in Presented(dsaSig[1].sig) :
          dsaVerdict' = <<[data |-> data, sig |-> sig,
                           pk |-> Public(dsaKey).pk,
                           Y |-> NewVerifier(Public(dsaKey).pk),
                           err |-> Verify(NewVerifier(Public(dsaKey).pk),
                                          data, sig)]>>
    /\ UNCHANGED <<dsaKey, dsaSig, keyVars, transportVars, readVars,
                   guardVars, addrVars, kcVars, lsVars, crVars, lenVars>>

NextDsa == GenerateKey \/ LoadKey \/ Sign \/ VerifyCall

SpecDsa == InitDsa /\ [][NextDsa]_vars

\* C14: for every generated key, a signature made by the signer verifies
\* without error, under the verifier of Public(), for the data it signs.
C14_SignVerifyRoundTrip ==
    (Len(dsaVerdict) = 1 /\ dsaVerdict[1].sig = dsaSig[1].sig
       /\ dsaVerdict[1].data = dsaSig[1].data
       /\ dsaKey \in {Generate(X) : X \in 1..(dsaq - 1)}) =>
        dsaVerdict[1].err = "nil"

\* C15: Verify and VerifyHash return ErrBadSignatureSize for every signature
\* whose length is not the signature size, and for no signature of that
\* size, which yields success or ErrInvalidSignature.
C15_BadSizeIffWrongLength ==
    Len(dsaVerdict) = 1 =>
        /\ (dsaVerdict[1].err = "ErrBadSignatureSize")
             <=> (Len(dsaVerdict[1].sig) # SignatureSize)
        /\ dsaVerdict[1].err \in {"nil", "ErrInvalidSignature", "ErrBadSignatureSize"}

C15_Witness ==
    /\ Len(dsaVerdict) = 1
    /\ Len(dsaVerdict[1].sig) > SignatureSize
    /\ dsaVerdict[1].err = "ErrBadSignatureSize"

\* C16: every signature of SignHash has the signature size; its first half
\* is r and its second half s, big-endian and left-padded with zero bytes, so
\* that decoding the halves gives back (r, s).
C16_SignatureFixedWidth ==
    Len(dsaSig) = 1 =>
        /\ Len(dsaSig[1].sig) = SignatureSize
        /\ SetBytes(Take(dsaSig[1].sig, PrivateKeySize)) = dsaSig[1].r
        /\ SetBytes(Drop(dsaSig[1].sig, PrivateKeySize)) = dsaSig[1].s

\* A signature whose r and s both have a leading zero byte.
C16_Witness ==
    /\ Len(dsaSig) = 1
    /\ Len(Bytes(dsaSig[1].r)) < PrivateKeySize
    /\ Len(Bytes(dsaSig[1].s)) < PrivateKeySize

(***************************************************************************)
(* Lease sets: LeaseCount.                                                  *)
(*                                                                         *)
(* A lease set is the destination (384 bytes of key slots and its           *)
(* certificate), a 256-byte public key, a 128-byte signing key, one byte    *)
(* holding the number of leases, the leases and a signature.                *)
(***************************************************************************)
LEASE_SIZE == 44

MAX_LEASES == 16

\* buildFullLeaseSet(n): the destination with a key certificate, the keys,
\* byte(n), n leases (lease i filled with i, then 8 zero bytes and i + 10)
\* and 64 signature bytes.
buildFullLeaseSet(n) ==
    Zeros(KEYS_AND_CERT_DATA_SIZE) \o <<CERT_KEY, 0, 4, 0, 1, 0, 0>>
      \o [i \in 1..256 |-> 1]
      \o [i \in 1..128 |-> 2]
      \o <<n % 256>>
      \o [j \in 1..(n * LEASE_SIZE) |->
            LET i == (j - 1) \div LEASE_SIZE
                p == (j - 1) % LEASE_SIZE
            IN IF p = LEASE_SIZE - 1 THEN (i + 10) % 256
               ELSE IF p >= LEASE_SIZE - 9 THEN 0 ELSE i % 256]
      \o [i \in 1..64 |-> 8]

\* A faulty variant of LeaseCount: no count is reported with the error.
LeaseCountOrNothing(lease_set) ==
    LET after == ReadCertificate(Drop(lease_set, KEYS_AND_CERT_DATA_SIZE)).remainder
    IN IF Len(after) < 256 + 128 + 1
       THEN [count |-> 0, err |-> "error parsing lease set: not enough data"]
       ELSE IF after[256 + 128 + 1] > MAX_LEASES
            THEN [count |-> 0,
                  err |-> "invalid lease set: more than 16 leases"]
            ELSE [count |-> after[256 + 128 + 1], err |-> "nil"]

\* LeaseSet.LeaseCount: the byte after the destination and the two keys;
\* a count above 16 is returned together with an error.
LeaseCount(lease_set) ==
    LET after == ReadCertificate(Drop(lease_set, KEYS_AND_CERT_DATA_SIZE)).remainder
    IN IF Len(after) < 256 + 128 + 1
       THEN [count |-> 0, err |-> "error parsing lease set: not enough data"]
       ELSE [count |-> after[256 + 128 + 1],
             err |-> IF after[256 + 128 + 1] > MAX_LEASES
                     THEN "invalid lease set: more than 16 leases"
                     ELSE "nil"]

\* The declared count the lease set was built with.
Declared == 0..255

InitLs ==
    /\ \E n \in Declared : lsData = <<n, buildFullLeaseSet(n)>>
    /\ lsRet = <<>>
    /\ IdleKey
    /\ IdleTransport
    /\ IdleRead
    /\ IdleGuard
    /\ IdleAddr
    /\ IdleKc
    /\ IdleDsa
    /\ IdleCr
    /\ IdleLen

\* lease_set.LeaseCount()
CallLeaseCount ==
    /\ lsRet = <<>>
    /\ lsRet' = <<LeaseCount(lsData[2])>>
    /\ UNCHANGED <<lsData, keyVars, transportVars, readVars, guardVars,
                   addrVars, kcVars, dsaVars, crVars, lenVars>>

SpecLs == InitLs /\ [][CallLeaseCount]_vars

\* C17: LeaseCount returns the declared count n for every n, with a nil
\* error when n <= 16 and with the error "invalid lease set: more than 16
\* leases" when n > 16.
C17_LeaseCountReportsDeclared ==
    Len(lsRet) = 1 =>
        /\ lsRet[1].count = lsData[1]
        /\ (lsData[1] <= 16) => lsRet[1].err = "nil"
        /\ (lsData[1] > 16) =>
               lsRet[1].err = "invalid lease set: more than 16 leases"

\* 17 declared leases: count 17 with the error.
C17_Witness ==
    /\ Len(lsRet) = 1
    /\ lsData[1] = 17
    /\ lsRet[1].count = 17
    /\ lsRet[1].err # "nil"

(***************************************************************************)
(* Message 1 (SessionRequest): CreateMessage and ProcessMessage of the      *)
(* SessionRequestProcessor.  A 32-byte key is one of the names in EphKeys;  *)
(* the handshake state is the ephemeral public key it holds.                *)
(***************************************************************************)
EphKeys == {"E1", "E2", "E3"}

\* A faulty variant of the message construction: the padding length field
\* is left at zero.
SessionRequestNoLength(ephemeralKey, randomInt, timestamp) ==
    [XContent |-> ephemeralKey,
     Options |-> [NetworkID |-> <<2>>, ProtocolVersion |-> <<2>>,
                  PaddingLength |-> <<0>>, Timestamp |-> timestamp],
     Padding |-> Zeros(randomInt)]

\* The SessionRequest CreateMessage returns, from the 32 bytes of rand.Read,
\* the number of rand.Int and the current time on: the padding is randomInt
\* zero bytes and PaddingLength the 1-byte Integer of byte(len(padding)).
SessionRequest(ephemeralKey, randomInt, timestamp) ==
    LET padding == Zeros(randomInt)
    IN [XContent |-> ephemeralKey,
        Options |-> [NetworkID |-> <<2>>, ProtocolVersion |-> <<2>>,
                     PaddingLength |-> NewInteger(<<Len(padding) % 256>>, 1).val,
                     Timestamp |-> timestamp],
        Padding |-> padding]

InitCr ==
    /\ crHs \in EphKeys
    /\ crMsg = <<>>
    /\ crRet = <<>>
    /\ IdleKey
    /\ IdleTransport
    /\ IdleRead
    /\ IdleGuard
    /\ IdleAddr
    /\ IdleKc
    /\ IdleDsa
    /\ IdleLs
    /\ IdleLen

\* s.CreateMessage(hs): rand.Read fills the key or fails, rand.Int draws a
\* number below 16 or fails; hs is not read.
CreateMessage ==
    /\ crRet = <<>>
    /\ \/ \E ephemeralKey \in EphKeys, randomInt \in 0..15, now \in {1, 2} :
             /\ crMsg' = <<SessionRequest(ephemeralKey, randomInt, now)>>
             /\ crRet' = <<[op |-> "CreateMessage", outcome |-> "nil"]>>
       \/ /\ crMsg' = <<>>
          /\ crRet' = <<[op |-> "CreateMessage", outcome |-> "error"]>>
    /\ UNCHANGED <<crHs, keyVars, transportVars, readVars, guardVars,
                   addrVars, kcVars, dsaVars, lsVars, lenVars>>

\* s.ProcessMessage(message, hs): panic("unimplemented").
ProcessMessage ==
    /\ crRet = <<>>
    /\ crRet' = <<[op |-> "ProcessMessage", outcome |-> "panic"]>>
    /\ UNCHANGED <<crHs, crMsg, keyVars, transportVars, readVars, guardVars,
                   addrVars, kcVars, dsaVars, lsVars, lenVars>>

NextCr == CreateMessage \/ ProcessMessage

SpecCr == InitCr /\ [][NextCr]_vars

\* C18: ProcessMessage ends normally for every message and handshake state,
\* with success or an error value; it never aborts its caller.
C18_ProcessMessageReturns ==
    (Len(crRet) = 1 /\ crRet[1].op = "ProcessMessage") =>
        crRet[1].outcome \in {"nil", "error"}

\* C19: the ephemeral key in the message CreateMessage(hs) builds is the
\* ephemeral public key held in hs.
C19_MessageCarriesHandshakeKey ==
    Len(crMsg) = 1 => crMsg[1].XContent = crHs

\* C20: in every message CreateMessage builds, PaddingLength is the number
\* of padding bytes, that number is between 0 and 15, and the frame stays
\* below the maximum size.
C20_PaddingLengthMatches ==
    Len(crMsg) = 1 =>
        /\ crMsg[1].Options.PaddingLength = <<Len(crMsg[1].Padding)>>
        /\ Len(crMsg[1].Padding) \in 0..15
        /\ FrameSize(Len(crMsg[1].Padding)) < NTCP_MESSAGE_MAX_SIZE

\* A message with the longest padding.
C20_Witness ==
    /\ Len(crMsg) = 1
    /\ Len(crMsg[1].Padding) = 15
    /\ crMsg[1].Options.PaddingLength = <<15>>

\* C21: for every input of at least 387 bytes ReadKeysAndCert returns the
\* certificate encoded in the input after the 384 bytes of key slots, and the
\* remainder it returns is the input without the bytes of the key slots and
\* of that certificate.
C21_ReadKeysAndCertCertificate ==
    (Len(kcRet) = 1 /\ kcRet[1].op = "ReadKeysAndCert"
       /\ Len(kcData) >= KEYS_AND_CERT_MIN_SIZE) =>
        /\ kcRet[1].cert = CertificateInside(kcData)
        /\ kcRet[1].remainder
             = ReadCertificate(Drop(kcData, KEYS_AND_CERT_DATA_SIZE)).remainder

\* C22: ReadRouterAddress returns a non-nil error whenever the parse of the
\* cost, the expiration, the transport style or the options fails, also when
\* a later field parses after an earlier one failed; a nil error means all
\* four fields were parsed without error.
C22_SubParseErrorReported ==
    (Len(raRead) = 1
       /\ \/ raRead[1].errCost # "nil"
          \/ raRead[1].errExpiration # "nil"
          \/ raRead[1].errStyle # "nil"
          \/ raRead[1].errOptions # "nil") =>
        raRead[1].err # "nil"

\* C23: for every private key, Public() returns without error the public key
\* holding Y = g^X mod p big-endian and left-padded with zeros, and
\* NewVerifier on these bytes gets exactly Y, also when Y is short.
C23_PublicKeyLeftPadded ==
    Len(dsaVerdict) = 1 =>
        LET Y == Exp(dsag, SetBytes(dsaKey), dsap)
        IN /\ Public(dsaKey).err = "nil"
           /\ dsaVerdict[1].pk
                = Zeros(PublicKeySize - Len(Bytes(Y))) \o Bytes(Y)
           /\ dsaVerdict[1].Y = Y

(***************************************************************************)
(* Length, an extension of Integer: Length and LengthBytes.  Bytes are      *)
(* numbers in 0..255 here.                                                  *)
(***************************************************************************)
INTEGER_SIZE == 8

\* binary.BigEndian.PutUint64 into n bytes: the n low bytes of v, big-endian.
RECURSIVE PutUint64(_, _)
PutUint64(v, n) ==
    IF n = 0 THEN <<>> ELSE Append(PutUint64(v \div 256, n - 1), v % 256)

\* binary.BigEndian.Uint64: the value of the bytes, big-endian.
RECURSIVE Uint64(_)
Uint64(b) ==
    IF b = <<>> THEN 0
    ELSE (Uint64(SubSeq(b, 1, Len(b) - 1)) * 256) + b[Len(b)]

\* Length(number): shorter input is left-padded with zeros to 8 bytes, then
\* the first 8 bytes are read big-endian.
Length(number) ==
    Uint64(Take(IF Len(number) < INTEGER_SIZE
                THEN Zeros(INTEGER_SIZE - Len(number)) \o number
                ELSE number,
                INTEGER_SIZE))

\* A faulty variant of LengthBytes: a single byte is not widened to two.
LengthBytesShortest(value) ==
    LET onumber == PutUint64(value, INTEGER_SIZE)
        nonzero == {i \in 1..INTEGER_SIZE : onumber[i] # 0}
        index == IF nonzero = {} THEN INTEGER_SIZE
                 ELSE CHOOSE i \in nonzero : \A j \in nonzero : i <= j
    IN SubSeq(onumber, index, INTEGER_SIZE)

\* LengthBytes(value): the 8 big-endian bytes from the first non-zero byte
\* on (from the last byte on when all are zero), and one byte more in front
\* when that leaves a single byte.
LengthBytes(value) ==
    LET onumber == PutUint64(value, INTEGER_SIZE)
        nonzero == {i \in 1..INTEGER_SIZE : onumber[i] # 0}
        index == IF nonzero = {} THEN INTEGER_SIZE
                 ELSE CHOOSE i \in nonzero : \A j \in nonzero : i <= j
    IN IF Len(SubSeq(onumber, index, INTEGER_SIZE)) = 1
       THEN SubSeq(onumber, index - 1, INTEGER_SIZE)
       ELSE SubSeq(onumber, index, INTEGER_SIZE)

\* The values of the model: the small ones, and those around the points
\* where the encoding grows by a byte, up to the largest 31-bit value.
InitLen ==
    /\ lenValue \in (0..300) \cup {65535, 65536, 16777215, 16777216, 2147483647}
    /\ lenNumber = <<>>
    /\ lenBack = <<>>
    /\ IdleKey
    /\ IdleTransport
    /\ IdleRead
    /\ IdleGuard
    /\ IdleAddr
    /\ IdleKc
    /\ IdleDsa
    /\ IdleLs
    /\ IdleCr

\* LengthBytes(v)
Encode ==
    /\ lenNumber = <<>>
    /\ lenNumber' = LengthBytes(lenValue)
    /\ UNCHANGED <<lenValue, lenBack, keyVars, transportVars, readVars,
                   guardVars, addrVars, kcVars, dsaVars, lsVars, crVars>>

\* Length(LengthBytes(v))
Decode ==
    /\ lenNumber # <<>>
    /\ lenBack = <<>>
    /\ lenBack' = <<Length(lenNumber)>>
    /\ UNCHANGED <<lenValue, lenNumber, keyVars, transportVars, readVars,
                   guardVars, addrVars, kcVars, dsaVars, lsVars, crVars>>

NextLen == Encode \/ Decode

SpecLen == InitLen /\ [][NextLen]_vars

\* C24: Length(LengthBytes(v)) = v for every non-negative v, and
\* LengthBytes(v) is the big-endian encoding of v without leading zero bytes,
\* except that it is never shorter than 2 bytes: 0 is two zero bytes and a
\* value below 256 a zero byte followed by the value.
C24_LengthRoundTrip ==
    /\ Len(lenBack) = 1 => lenBack[1] = lenValue
    /\ lenNumber # <<>> =>
          /\ Len(lenNumber) >= 2
          /\ lenNumber = PutUint64(lenValue, Len(lenNumber))
          /\ Len(lenNumber) > 2 => lenNumber[1] # 0
          /\ lenValue < 256 => lenNumber = <<0, lenValue>>

\* A value of one byte, encoded in two bytes and read back.
C24_Witness ==
    /\ lenValue \in 1..255
    /\ lenNumber = <<0, lenValue>>
    /\ lenBack = <<lenValue>>

====
